---- MODULE Spec2Model ----
(***************************************************************************)
(* A model of script.py, the game catalogue enricher: the normalizer, the  *)
(* deduplicator, the cache, the batched genre classification, the gated    *)
(* concurrent HowLongToBeat lookups and the orchestrator main().            *)
(*                                                                         *)
(* Python strings are sequences of one-character strings, so that strip,   *)
(* lower, substring tests, float parsing and number formatting are         *)
(* computed character by character.  Values that come from the             *)
(* HowLongToBeat client (None, int, float) are tagged records; a float is  *)
(* held in hundredths.                                                      *)
(***************************************************************************)
EXTENDS Integers, Sequences, FiniteSets, TLC

(* ------------------------------ strings ------------------------------- *)

UpperChars == <<"A","B","C","D","E","F","G","H","I","J","K","L","M",
                "N","O","P","Q","R","S","T","U","V","W","X","Y","Z">>

LowerChars == <<"a","b","c","d","e","f","g","h","i","j","k","l","m",
                "n","o","p","q","r","s","t","u","v","w","x","y","z">>

DigitChars == <<"0","1","2","3","4","5","6","7","8","9">>

Whitespace == {" ", "\t", "\n", "\r"}

\* the lower-case letter of each upper-case letter
ToLower == [c \in {UpperChars[i] : i \in 1..26} |->
               LowerChars[CHOOSE i \in 1..26 : UpperChars[i] = c]]

\* str.lower() on one character
LowerChar(c) == IF c \in DOMAIN ToLower THEN ToLower[c] ELSE c

\* str.lower()
Lower(s) == [i \in 1..Len(s) |-> LowerChar(s[i])]

\* str.lstrip()
RECURSIVE LStrip(_)
LStrip(s) ==
    IF s # <<>> /\ Head(s) \in Whitespace THEN LStrip(Tail(s)) ELSE s

\* str.rstrip()
RECURSIVE RStrip(_)
RStrip(s) ==
    IF s # <<>> /\ s[Len(s)] \in Whitespace
    THEN RStrip(SubSeq(s, 1, Len(s) - 1))
    ELSE s

\* str.strip()
Strip(s) == RStrip(LStrip(s))

\* the Python test  sub in s  on strings
Contains(sub, s) ==
    \E i \in 0..(Len(s) - Len(sub)) : SubSeq(s, i + 1, i + Len(sub)) = sub

IsDigit(c) == \E i \in 1..10 : DigitChars[i] = c

DigitVal(c) == (CHOOSE i \in 1..10 : DigitChars[i] = c) - 1

\* the value of a sequence of decimal digits
RECURSIVE DigitsVal(_)
DigitsVal(s) ==
    IF s = <<>> THEN 0
    ELSE 10 * DigitsVal(SubSeq(s, 1, Len(s) - 1)) + DigitVal(s[Len(s)])

\* str(n) for an int n >= 0
RECURSIVE IntToStr(_)
IntToStr(n) ==
    IF n < 10 THEN <<DigitChars[n + 1]>>
    ELSE IntToStr(n \div 10) \o <<DigitChars[(n % 10) + 1]>>

(* --------------------------- Python values ---------------------------- *)

PyNone == [t |-> "none"]
PyInt(n) == [t |-> "int", v |-> n]
\* a float, held in hundredths: PyFloat(713) is 7.13
PyFloat(h) == [t |-> "float", v |-> h]
PyS(s) == [t |-> "str", v |-> s]

\* the truth value Python gives  val  in  not val  and  val or ""
Truthy(val) ==
    CASE val.t = "none" -> FALSE
      [] val.t = "int" -> val.v # 0
      [] val.t = "float" -> val.v # 0
      [] val.t = "str" -> val.v # <<>>

\* str(val) for None, an int >= 0 and a str
PyStr(val) ==
    CASE val.t = "none" -> <<"N","o","n","e">>
      [] val.t = "int" -> IntToStr(val.v)
      [] val.t = "str" -> val.v

UNKNOWN == <<"U","n","k","n","o","w","n">>

\* the values normalize_field folds into "Unknown", lower-cased
NullWords ==
    { <<>>, <<"n","o","n","e">>, <<"n","a","n">>, <<"n","u","l","l">>,
      <<"u","n","k","n","o","w","n">> }

normalize_field(val) ==
    LET clean_val == Strip(PyStr(IF Truthy(val) THEN val ELSE PyS(<<>>)))
    IN  IF Lower(clean_val) \in NullWords THEN UNKNOWN ELSE clean_val

(* -------------------------- round_to_quarter -------------------------- *)

ValueError == -1

\* float("inf"): round() raises OverflowError on it, which round_to_quarter
\* does not catch
Infinity == -2

\* the spellings float() reads as an infinity, lower-cased
InfWords ==
    { <<"i","n","f">>, <<"+","i","n","f">>, <<"-","i","n","f">>,
      <<"i","n","f","i","n","i","t","y">>,
      <<"+","i","n","f","i","n","i","t","y">>,
      <<"-","i","n","f","i","n","i","t","y">> }

\* what round_to_quarter yields when it raises OverflowError: no string
OverflowError == <<"OverflowError">>

\* float(s) in hundredths for a string of the form  digits[.digits]  with
\* at most two digits after the point, surrounded by optional whitespace
\* (float() strips it); Infinity for the spellings of an infinity;
\* ValueError for every other string.  "nan" parses
\* as a float in Python and round() then raises ValueError on it, which
\* the same except clause catches, so ValueError stands for it as well.
ParseFloat(s) ==
    LET c == Strip(s)
        dots == {i \in 1..Len(c) : c[i] = "."}
        ip == IF dots = {} THEN c
              ELSE SubSeq(c, 1, (CHOOSE i \in dots : TRUE) - 1)
        fp == IF dots = {} THEN <<>>
              ELSE SubSeq(c, (CHOOSE i \in dots : TRUE) + 1, Len(c))
    IN  IF Lower(c) \in InfWords THEN Infinity
        ELSE IF /\ Cardinality(dots) <= 1
                /\ Len(ip) + Len(fp) > 0
                /\ Len(fp) <= 2
                /\ \A i \in 1..Len(ip) : IsDigit(ip[i])
                /\ \A i \in 1..Len(fp) : IsDigit(fp[i])
        THEN 100 * DigitsVal(ip)
             + (IF Len(fp) = 1 THEN 10 * DigitsVal(fp) ELSE DigitsVal(fp))
        ELSE ValueError

\* round(time_val * 4) / 4 on hundredths.  h / 25 is never halfway between
\* two integers for an integer h, so round-half-even plays no part.
RoundQuarter(h) == 25 * ((2 * h + 25) \div 50)

\* f"{rounded:.2f}" for a value in hundredths
Format2f(h) ==
    IntToStr(h \div 100) \o <<".">> \o
    <<DigitChars[((h % 100) \div 10) + 1], DigitChars[(h % 10) + 1]>>

round_to_quarter(value) ==
    IF ~Truthy(value) THEN UNKNOWN
    ELSE IF value.t = "str" /\ value.v \in {UNKNOWN, <<"N","o","n","e">>, <<>>}
    THEN UNKNOWN
    ELSE LET time_val == IF value.t = "str" THEN ParseFloat(value.v)
                         ELSE value.v
         IN  IF time_val = ValueError THEN UNKNOWN
             ELSE IF time_val = Infinity THEN OverflowError
             ELSE Format2f(RoundQuarter(time_val))

(* ----------------------------- Config --------------------------------- *)

\* Config.MAX_GAMES_TO_PROCESS, MAX_CONCURRENT_GAMES and GENRE_BATCH_SIZE
\* are 20, 5 and 20 in the source; they are configuration values and are
\* scaled down here so that truncation, a full gate and a second batch
\* occur with a handful of records.
MAX_GAMES_TO_PROCESS == 3

MAX_CONCURRENT_GAMES == 2

GENRE_BATCH_SIZE == 2

\* Config.SIMILARITY_THRESHOLD, in hundredths
SIMILARITY_THRESHOLD == 85

S_Action == <<"A","c","t","i","o","n">>
S_RPG == <<"R","P","G">>
S_Horror == <<"H","o","r","r","o","r">>

\* Config.GENRES_ALLOWED (two of its labels; "Horror" is not among them)
GENRES_ALLOWED == {S_Action, S_RPG}

(* ----------------------------- records -------------------------------- *)

\* the columns of the table, as main() names them
fieldnames ==
    <<"Game", "Platform", "Year", "Genre", "Game Id", "Time to Beat",
      "Score", "Status">>

Row(game, platform, year, genre, gid, ttb, score, status) ==
    [f \in {fieldnames[i] : i \in 1..Len(fieldnames)} |->
        CASE f = "Game" -> game
          [] f = "Platform" -> platform
          [] f = "Year" -> year
          [] f = "Genre" -> genre
          [] f = "Game Id" -> gid
          [] f = "Time to Beat" -> ttb
          [] f = "Score" -> score
          [] f = "Status" -> status]

\* IsEmptyField with the first  not  left out
IsEmptyFieldInverted(game, f) == game[f] # <<>> \/ Strip(game[f]) = <<>>

\* not game.get(f) or str(game.get(f)).strip() == ""
IsEmptyField(game, f) == game[f] = <<>> \/ Strip(game[f]) = <<>>

\* the filter of main(): any of the five target fields is empty
NeedsUpdate(game) ==
    \E f \in {"Year", "Genre", "Game Id", "Time to Beat", "Score"} :
        IsEmptyField(game, f)

\* needs_hltb taking "Unknown" and the other spellings of a missing value
\* for missing
needs_hltb_or_unknown(game) ==
    \E f \in {"Year", "Game Id", "Time to Beat", "Score"} :
        normalize_field(PyS(game[f])) = UNKNOWN

\* the test of process_hltb_only: any of the four HLTB fields is empty
needs_hltb(game) ==
    \E f \in {"Year", "Game Id", "Time to Beat", "Score"} :
        IsEmptyField(game, f)

\* the members of a set of indices in increasing order: the order in which
\* a list comprehension over a list visits them
RECURSIVE AscSeq(_)
AscSeq(S) ==
    IF S = {} THEN <<>>
    ELSE LET m == CHOOSE x \in S : \A y \in S : x <= y
         IN  <<m>> \o AscSeq(S \ {m})

Range(s) == {s[i] : i \in 1..Len(s)}

Min(a, b) == IF a < b THEN a ELSE b

(* --------------------------- deduplicate_games ------------------------- *)

\* DedupKey on the title alone
DedupKeyNameOnly(game) == <<Lower(normalize_field(PyS(game["Game"])))>>

\* the key of deduplicate_games
DedupKey(game) ==
    <<Lower(normalize_field(PyS(game["Game"]))),
      Lower(normalize_field(PyS(game["Platform"])))>>

RECURSIVE DedupLoop(_, _, _, _)
DedupLoop(games, i, seen, unique_list) ==
    IF i > Len(games) THEN unique_list
    ELSE IF DedupKey(games[i]) \notin seen
    THEN DedupLoop(games, i + 1, seen \cup {DedupKey(games[i])},
                   Append(unique_list, games[i]))
    ELSE DedupLoop(games, i + 1, seen, unique_list)

deduplicate_games(games) == DedupLoop(games, 1, {}, <<>>)

(* ------------------------------- cache -------------------------------- *)

\* name.lower().strip()
CacheKey(name) == Strip(Lower(name))

\* key in cache and cache[key].get(f) is truthy
CacheHas(cache, key, f) ==
    /\ key \in DOMAIN cache
    /\ f \in DOMAIN cache[key]
    /\ cache[key][f] # <<>>

\* cached_data.get(f, "Unknown")
CacheGetOrUnknown(cached_data, f) ==
    IF f \in DOMAIN cached_data THEN cached_data[f] ELSE UNKNOWN

\* CacheMerge putting the fields in place of the entry
CacheReplace(cache, key, fields) ==
    [k \in DOMAIN cache \cup {key} |-> IF k = key THEN fields ELSE cache[k]]

\* if key not in cache: cache[key] = {};  cache[key].update(fields)
CacheMerge(cache, key, fields) ==
    LET old == IF key \in DOMAIN cache THEN cache[key] ELSE << >>
    IN  [k \in DOMAIN cache \cup {key} |->
            IF k = key
            THEN [f \in DOMAIN old \cup DOMAIN fields |->
                     IF f \in DOMAIN fields THEN fields[f] ELSE old[f]]
            ELSE cache[k]]

(* --------------------------- the inputs ------------------------------- *)

\* the longest of the short input tables
MaxRecords == 2

\* the most entries of one classification response
MaxResponseLen == 2

\* the number of runs of the script, one after the other
MaxRuns == 2

S_Doom == <<"D","o","o","m">>
S_DoomAlias == <<" ","D","O","O","M">>
S_Growl == <<"G","r","o","w","l">>
S_Quake == <<"Q","u","a","k","e">>
S_PC == <<"P","C">>
S_SNES == <<"S","N","E","S">>
S_Pico8 == <<"P","i","c","o"," ","8">>
S_MegaDrive == <<"M","e","g","a"," ","D","r","i","v","e">>
S_1991 == <<"1","9","9","1">>
S_1993 == <<"1","9","9","3">>
S_123 == <<"1","2","3">>
S_80 == <<"8","0">>
S_7p1 == <<"7",".","1">>
S_7p00 == <<"7",".","0","0">>

\* a record with every target field empty
RowDoom == Row(S_Doom, S_PC, <<>>, <<>>, <<>>, <<>>, <<>>, <<>>)
\* the same title in another spelling, on another platform
RowDoomAlias == Row(S_DoomAlias, S_SNES, <<>>, <<>>, <<>>, <<>>, <<>>, <<>>)
\* a record of the platform HowLongToBeat does not list
RowPico == Row(S_Growl, S_Pico8, <<>>, <<>>, <<>>, <<>>, <<>>, <<>>)
\* a record with every target field filled, its time not a quarter
RowFull ==
    Row(S_Growl, S_MegaDrive, S_1991, S_Action, S_123, S_7p1, S_80,
        <<"o","k">>)
\* RowDoom's title and platform in another spelling, partly filled
RowPartial ==
    Row(S_Doom, <<"p","c"," ">>, S_1993, S_RPG, <<>>, <<" ">>, <<>>, <<>>)
\* a record that lacks a genre and holds "Unknown" in other fields
RowUnknown ==
    Row(S_Growl, S_PC, UNKNOWN, <<>>, UNKNOWN, UNKNOWN, UNKNOWN, <<>>)
\* a third title with every target field empty
RowQuake == Row(S_Quake, S_PC, <<>>, <<>>, <<>>, <<>>, <<>>, <<>>)

\* a record that lacks a genre and whose time reads as an infinity
RowInf ==
    Row(S_Quake, S_PC, S_1993, <<>>, S_123, <<"i","n","f">>, S_80, <<>>)

\* the rows the short tables are made of
InputRows ==
    {RowDoom, RowPico, RowFull, RowPartial, RowUnknown}

\* every list of at most MaxRecords distinct rows
ShortTables ==
    UNION { {t \in [1..n -> InputRows] :
                \A i, j \in 1..n : i # j => t[i] # t[j]} : n \in 0..MaxRecords }

\* two longer tables: one with more records to look up than the gate
\* admits and more than a run processes, over two classification batches;
\* one with a filled record, a duplicate and a record of "Unknown" fields
LongTables ==
    { <<RowDoom, RowDoomAlias, RowQuake, RowPico>>,
      <<RowFull, RowPartial, RowDoom, RowUnknown>> }

InputTables == ShortTables \cup LongTables

\* RowFull once more, in another spelling of its title and platform
RowFullAgain ==
    Row(<<"g","r","o","w","l"," ">>, <<"m","e","g","a"," ","d","r","i","v","e">>,
        S_1991, S_RPG, S_123, S_7p00, S_80, <<>>)

\* tables without an empty target field, with a duplicate
FilledTables == { <<RowFull, RowFullAgain>>, <<RowFullAgain, RowFull, RowFull>> }

\* the longest table handed to deduplicate_games alone
MaxDedupRows == 3

\* the rows of those tables: one title in two spellings, a platform in two
\* spellings and missing in two spellings, and a Status that tells two
\* rows of one key apart
DedupRows ==
    { Row(g, p, <<>>, <<>>, <<>>, <<>>, <<>>, st) :
        g \in {S_Doom, S_DoomAlias},
        p \in {S_PC, <<"p","c"," ">>, <<>>, <<"N","a","N">>},
        st \in {<<"a">>, <<"b">>} }

DedupTables == UNION { [1..n -> DedupRows] : n \in 0..MaxDedupRows }

EmptyCache == << >>

\* the cache documents a run may start from: none, and one that holds the
\* HowLongToBeat id and year of one title and every field of another
CacheDocs ==
    { EmptyCache,
      (<<"d","o","o","m">> :> ("Game Id" :> S_123 @@ "Year" :> S_1991)) @@
      (<<"g","r","o","w","l">> :>
          ("Genre" :> S_RPG @@ "Game Id" :> S_123 @@ "Year" :> S_1991 @@
           "Score" :> S_80 @@ "Time to Beat" :> S_7p00)) }

Cand(gid, sim, year, main, score) ==
    [game_id |-> gid, similarity |-> sim, release_world |-> year,
     main_story |-> main, review_score |-> score]

C40 == Cand(PyInt(4), 40, PyInt(1980), PyFloat(100), PyInt(10))
C84 == Cand(PyInt(6), 84, PyInt(1984), PyFloat(200), PyInt(20))
C85 == Cand(PyInt(7), 85, PyInt(1993), PyFloat(713), PyInt(80))
C85b == Cand(PyInt(9), 85, PyNone, PyFloat(0), PyInt(0))

\* the candidate lists async_search may return: none, one a hundredth below
\* the threshold, one at the threshold, and a list whose greatest similarity
\* is met twice, after a smaller one
SearchResults == { <<>>, <<C84>>, <<C85>>, <<C40, C85, C85b>> }

Labels == {S_Action, S_RPG, S_Horror}

(* ------------------------------ state --------------------------------- *)

VARIABLES
    csvFile,         \* games.csv, read and (OVERWRITE_INPUT) written by main
    cacheFile,       \* game_data_cache.json: the document on disk
    runs,            \* the number of runs started
    pc,              \* where main() stands
    csv_rows,        \* list(csv.DictReader(f)) of this run
    all_games,       \* main: all_games
    queue,           \* main: queue, as indices into all_games
    game_cache,      \* GameEnricher.game_cache
    semaphore,       \* the value of GameEnricher.semaphore
    remaining_games, \* fetch_genres_batch: remaining_games, as indices
    batch_i,         \* fetch_genres_batch: i, the start of the batch awaited
    task,            \* the state of each process_hltb_only task of gather
    requested,       \* the records listed in a classification request
    searched,        \* the records async_search was called for
    flushes,         \* the number of _save_cache calls of this run
    last             \* the step just taken and the response it received

vars ==
    <<csvFile, cacheFile, runs, pc, csv_rows, all_games, queue, game_cache,
      semaphore, remaining_games, batch_i, task, requested, searched,
      flushes, last>>

NoEvent == [op |-> "none", k |-> 0, arg |-> <<>>]

Event(op, k, arg) == [op |-> op, k |-> k, arg |-> arg]

\* the state of a process that has just been started
Fresh ==
    /\ pc = "start"
    /\ csv_rows = <<>>
    /\ all_games = <<>>
    /\ queue = <<>>
    /\ game_cache = EmptyCache
    /\ semaphore = MAX_CONCURRENT_GAMES
    /\ remaining_games = <<>>
    /\ batch_i = 0
    /\ task = <<>>
    /\ requested = {}
    /\ searched = {}
    /\ flushes = 0
    /\ last = NoEvent

Init ==
    /\ csvFile \in [exists : {TRUE}, rows : InputTables]
                   \cup {[exists |-> FALSE, rows |-> <<>>]}
    /\ cacheFile \in CacheDocs
    /\ runs = 1
    /\ Fresh

(* ------------------------- main: load and queue ----------------------- *)

\* the cache file cut short: what is on disk when the process is stopped
\* after open(CACHE_FILE, 'w') has emptied the file and before json.dump
\* has written all of the document.  It stands for every proper prefix of
\* a document; json.load rejects each of them.
Truncated == <<"{">> :> << >>

\* GameEnricher._load_cache: the document of the file, or {} when
\* json.load raises
load_cache == IF cacheFile = Truncated THEN EmptyCache ELSE cacheFile

\* SaveCache leaving the file as it is
SaveCacheDeferred(cache) ==
    /\ cacheFile' = cacheFile
    /\ flushes' = flushes + 1

\* GameEnricher._save_cache: the whole map is written on every flush
SaveCache(cache) ==
    /\ cacheFile' = cache
    /\ flushes' = flushes + 1

\* main, step 2: the indices of the records with an empty target field
to_process(games) == AscSeq({i \in 1..Len(games) : NeedsUpdate(games[i])})

\* main, step 3: to_process[:MAX_GAMES_TO_PROCESS]
QueueOf(games) ==
    LET tp == to_process(games)
    IN  IF MAX_GAMES_TO_PROCESS # 0
        THEN SubSeq(tp, 1, Min(MAX_GAMES_TO_PROCESS, Len(tp)))
        ELSE tp

\* asyncio.gather(*tasks): one task per queued record, none started yet
StartGather ==
    /\ pc' = "gather"
    /\ task' = [k \in 1..Len(queue) |-> "pending"]

\* main, lines 253-279: the enricher is built (the cache is loaded), the
\* table is read and deduplicated, the queue is chosen
Load ==
    /\ pc = "start"
    /\ game_cache' = load_cache
    /\ IF ~csvFile.exists
       THEN /\ pc' = "fatal"
            /\ UNCHANGED <<csv_rows, all_games, queue>>
       ELSE /\ csv_rows' = csvFile.rows
            /\ all_games' = deduplicate_games(csvFile.rows)
            /\ queue' = QueueOf(all_games')
            /\ pc' = IF queue' = <<>> THEN "noop" ELSE "genres"
    /\ last' = Event("load", 0, <<>>)
    /\ UNCHANGED <<csvFile, cacheFile, runs, semaphore, remaining_games,
                   batch_i, task, requested, searched, flushes>>

(* ------------------------- fetch_genres_batch ------------------------- *)

\* Batch taking every record from i on
BatchToEnd(remaining, i) == SubSeq(remaining, i + 1, Len(remaining))

\* remaining_games[i : i + GENRE_BATCH_SIZE]
Batch(remaining, i) ==
    SubSeq(remaining, i + 1, Min(i + GENRE_BATCH_SIZE, Len(remaining)))

\* fetch_genres_batch, lines 97-113: the records of the queue with an empty
\* Genre take the cached genre of their name; the others are left for the
\* classification service, whose first batch is requested
StartGenres ==
    /\ pc = "genres"
    /\ LET target_games ==
               {n \in Range(queue) : IsEmptyField(all_games[n], "Genre")}
           hits == {n \in target_games :
                       CacheHas(game_cache, CacheKey(all_games[n]["Game"]),
                                "Genre")}
           remaining == AscSeq(target_games \ hits)
       IN  /\ all_games' =
                 [n \in 1..Len(all_games) |->
                     IF n \in hits
                     THEN [all_games[n] EXCEPT !["Genre"] =
                              game_cache[CacheKey(all_games[n]["Game"])]["Genre"]]
                     ELSE all_games[n]]
           /\ remaining_games' = remaining
           /\ batch_i' = 0
           /\ IF remaining = <<>>
              THEN StartGather /\ UNCHANGED requested
              ELSE /\ pc' = "classify"
                   /\ requested' = requested \cup Range(Batch(remaining, 0))
                   /\ UNCHANGED task
    /\ last' = Event("genres", 0, <<>>)
    /\ UNCHANGED <<csvFile, cacheFile, runs, csv_rows, queue, game_cache,
                   semaphore, searched, flushes>>

\* AllowedGenre without the test
AllowedGenreAny(genre) == TRUE

\* genre in Config.GENRES_ALLOWED
AllowedGenre(genre) == genre \in GENRES_ALLOWED

\* the loop of lines 144-149 over result_json.items(), in the order of the
\* response: an allowed genre is stored under the lower-cased, stripped name
RECURSIVE MergeGenres(_, _, _)
MergeGenres(cache, result_json, j) ==
    IF j > Len(result_json) THEN cache
    ELSE LET game_name == result_json[j][1]
             genre == result_json[j][2]
         IN  MergeGenres(IF AllowedGenre(genre)
                         THEN CacheMerge(cache, CacheKey(game_name),
                                         "Genre" :> genre)
                         ELSE cache,
                         result_json, j + 1)

\* ApplyGenres over every record, of the batch or not
ApplyGenresToAll(games, batch, cache) ==
    [n \in 1..Len(games) |->
        LET key == CacheKey(games[n]["Game"])
        IN  IF CacheHas(cache, key, "Genre")
            THEN [games[n] EXCEPT !["Genre"] = cache[key]["Genre"]]
            ELSE games[n]]

\* the loop of lines 152-155: each record of the batch takes the genre the
\* cache now holds for its name
ApplyGenres(games, batch, cache) ==
    [n \in 1..Len(games) |->
        IF n \in Range(batch)
        THEN LET key == CacheKey(games[n]["Game"])
             IN  IF CacheHas(cache, key, "Genre")
                 THEN [games[n] EXCEPT !["Genre"] = cache[key]["Genre"]]
                 ELSE games[n]
        ELSE games[n]]

\* the responses of the classification service that parse: a JSON object
\* of at most MaxResponseLen entries, in the order of the document, each
\* a title of the queue (of the awaited batch or not) with a label
Responses ==
    LET titles == {all_games[n]["Game"] : n \in Range(queue)}
    IN  UNION { {r \in [1..n -> titles \X Labels] :
                    \A a, b \in 1..n : a # b => r[a][1] # r[b][1]} :
                n \in 0..MaxResponseLen }

\* NextBatch leaving the loop after the batch awaited
NextBatchAbort ==
    /\ batch_i' = batch_i + GENRE_BATCH_SIZE
    /\ StartGather
    /\ UNCHANGED requested

\* the end of one pass of the loop of line 116: the next batch is requested,
\* or fetch_genres_batch returns and main starts the lookups
NextBatch ==
    /\ batch_i' = batch_i + GENRE_BATCH_SIZE
    /\ IF batch_i' < Len(remaining_games)
       THEN /\ pc' = "classify"
            /\ requested' =
                   requested \cup Range(Batch(remaining_games, batch_i'))
            /\ UNCHANGED task
       ELSE StartGather /\ UNCHANGED requested

\* lines 135-158: the response of the awaited batch parses
BatchResponds(result_json) ==
    /\ pc = "classify"
    /\ game_cache' = MergeGenres(game_cache, result_json, 1)
    /\ all_games' =
           ApplyGenres(all_games, Batch(remaining_games, batch_i), game_cache')
    /\ SaveCache(game_cache')
    /\ NextBatch
    /\ last' = Event("batch_ok", batch_i, result_json)
    /\ UNCHANGED <<csvFile, runs, csv_rows, queue, semaphore,
                   remaining_games, searched>>

\* lines 160-161: the request of the awaited batch fails, or its response
\* does not parse
BatchFails ==
    /\ pc = "classify"
    /\ NextBatch
    /\ last' = Event("batch_error", batch_i, <<>>)
    /\ UNCHANGED <<csvFile, cacheFile, runs, csv_rows, all_games, queue,
                   game_cache, semaphore, remaining_games, searched, flushes>>

(* -------------------------- process_hltb_only ------------------------- *)

\* max(results, key=lambda x: x.similarity): one scan from the left that
\* replaces the best so far only by a strictly greater candidate
RECURSIVE MaxScan(_, _, _)
MaxScan(results, j, best) ==
    IF j > Len(results) THEN best
    ELSE MaxScan(results, j + 1,
                 IF results[j].similarity > best.similarity
                 THEN results[j] ELSE best)

\* a scan that also replaces the best so far by an equal candidate
RECURSIVE MaxScanLast(_, _, _)
MaxScanLast(results, j, best) ==
    IF j > Len(results) THEN best
    ELSE MaxScanLast(results, j + 1,
                     IF results[j].similarity >= best.similarity
                     THEN results[j] ELSE best)

BestOfLastMax(results) == MaxScanLast(results, 2, results[1])

BestOf(results) == MaxScan(results, 2, results[1])

\* Accepts with > for >=
AcceptsStrictly(best) == best.similarity > SIMILARITY_THRESHOLD

\* best.similarity >= Config.SIMILARITY_THRESHOLD
Accepts(best) == best.similarity >= SIMILARITY_THRESHOLD

\* lines 201-204: the four fields taken from the accepted candidate
HltbFields(best) ==
    "Score" :> normalize_field(best.review_score) @@
    "Year" :> normalize_field(best.release_world) @@
    "Game Id" :> normalize_field(best.game_id) @@
    "Time to Beat" :> round_to_quarter(best.main_story)

\* lines 188-191: the four fields taken from a cache entry
CachedFields(cached_data) ==
    "Score" :> CacheGetOrUnknown(cached_data, "Score") @@
    "Year" :> CacheGetOrUnknown(cached_data, "Year") @@
    "Game Id" :> CacheGetOrUnknown(cached_data, "Game Id") @@
    "Time to Beat" :> CacheGetOrUnknown(cached_data, "Time to Beat")

\* game[f] = fields[f] for each field supplied
SetFields(game, fields) ==
    [f \in DOMAIN game |-> IF f \in DOMAIN fields THEN fields[f] ELSE game[f]]

\* "pico 8" in game.get("Platform", "").strip().lower()
ExcludedPlatform(game) ==
    Contains(<<"p","i","c","o"," ","8">>, Lower(Strip(game["Platform"])))

\* CachedHltb testing Score where the code tests Year
CachedHltbWrongField(cache, key) ==
    CacheHas(cache, key, "Game Id") /\ CacheHas(cache, key, "Score")

\* lines 186-187: the entry of the name holds a Game Id and a Year
CachedHltb(cache, key) ==
    CacheHas(cache, key, "Game Id") /\ CacheHas(cache, key, "Year")

\* MayEnter without the test of the semaphore's value
MayEnterUngated(k) == \A j \in 1..(k - 1) : task[j] # "pending"

\* the semaphore is free for task k: asyncio starts the tasks of gather in
\* the order of the queue and wakes the waiters of a semaphore first come,
\* first served, so task k enters once every earlier task has
MayEnter(k) ==
    /\ semaphore > 0
    /\ \A j \in 1..(k - 1) : task[j] # "pending"

\* lines 165-196: task k takes the semaphore and runs to its first await:
\* it returns at once (excluded platform, nothing missing, cache hit),
\* giving the semaphore back, or it calls async_search and waits inside
TaskEnter(k) ==
    /\ pc = "gather"
    /\ task[k] = "pending"
    /\ MayEnter(k)
    /\ LET n == queue[k]
           game == all_games[n]
           key == CacheKey(game["Game"])
       IN  IF ExcludedPlatform(game)
           THEN /\ task' = [task EXCEPT ![k] = "done"]
                /\ last' = Event("skip_platform", k, <<>>)
                /\ UNCHANGED <<all_games, semaphore, searched>>
           ELSE IF ~needs_hltb(game)
           THEN /\ task' = [task EXCEPT ![k] = "done"]
                /\ last' = Event("skip_populated", k, <<>>)
                /\ UNCHANGED <<all_games, semaphore, searched>>
           ELSE IF CachedHltb(game_cache, key)
           THEN /\ all_games' =
                      [all_games EXCEPT ![n] =
                          SetFields(game, CachedFields(game_cache[key]))]
                /\ task' = [task EXCEPT ![k] = "done"]
                /\ last' = Event("cache_hit", k, <<>>)
                /\ UNCHANGED <<semaphore, searched>>
           ELSE /\ semaphore' = semaphore - 1
                /\ task' = [task EXCEPT ![k] = "searching"]
                /\ searched' = searched \cup {n}
                /\ last' = Event("search", k, <<>>)
                /\ UNCHANGED all_games
    /\ UNCHANGED <<csvFile, cacheFile, runs, pc, csv_rows, queue, game_cache,
                   remaining_games, batch_i, requested, flushes>>

\* lines 196-225: async_search returns its candidates to task k, which
\* takes the best one if it is similar enough and leaves the semaphore
SearchReturns(k, results) ==
    /\ pc = "gather"
    /\ task[k] = "searching"
    /\ LET n == queue[k]
           game == all_games[n]
           key == CacheKey(game["Game"])
       IN  IF results # <<>> /\ Accepts(BestOf(results))
           THEN /\ all_games' =
                      [all_games EXCEPT ![n] =
                          SetFields(game, HltbFields(BestOf(results)))]
                /\ game_cache' =
                      CacheMerge(game_cache, key, HltbFields(BestOf(results)))
                /\ SaveCache(game_cache')
                /\ last' = Event("accepted", k, results)
           ELSE /\ last' = Event(IF results = <<>> THEN "not_found"
                                 ELSE "rejected", k, results)
                /\ UNCHANGED <<all_games, game_cache, cacheFile, flushes>>
    /\ task' = [task EXCEPT ![k] = "done"]
    /\ semaphore' = semaphore + 1
    /\ UNCHANGED <<csvFile, runs, pc, csv_rows, queue, remaining_games,
                   batch_i, requested, searched>>

\* SearchFails leaving the semaphore taken
SearchFailsHoldingSlot(k) ==
    /\ pc = "gather"
    /\ task[k] = "searching"
    /\ task' = [task EXCEPT ![k] = "done"]
    /\ last' = Event("search_error", k, <<>>)
    /\ UNCHANGED <<csvFile, cacheFile, runs, pc, csv_rows, all_games, queue,
                   game_cache, semaphore, remaining_games, batch_i, requested,
                   searched, flushes>>

\* lines 226-227: async_search raises in task k
SearchFails(k) ==
    /\ pc = "gather"
    /\ task[k] = "searching"
    /\ task' = [task EXCEPT ![k] = "done"]
    /\ semaphore' = semaphore + 1
    /\ last' = Event("search_error", k, <<>>)
    /\ UNCHANGED <<csvFile, cacheFile, runs, pc, csv_rows, all_games, queue,
                   game_cache, remaining_games, batch_i, requested, searched,
                   flushes>>

(* ------------------------ main: the end of a run ---------------------- *)

\* lines 292-295 for one record of the queue
PostProcess(game) ==
    LET norm == [f \in DOMAIN game |->
                    IF f \in {"Year", "Genre", "Game Id", "Time to Beat",
                              "Score", "Platform"}
                    THEN normalize_field(PyS(game[f]))
                    ELSE game[f]]
    IN  [norm EXCEPT !["Time to Beat"] =
            round_to_quarter(PyS(norm["Time to Beat"]))]

\* OutputRows writing the queue instead of all_games
OutputRowsQueueOnly(games, q) == [k \in 1..Len(q) |-> PostProcess(games[q[k]])]

\* the rows main hands to writer.writerows
OutputRows(games, q) ==
    [n \in 1..Len(games) |->
        IF n \in Range(q) THEN PostProcess(games[n]) ELSE games[n]]

\* lines 289-309: every task of gather is done; the queue is normalised and
\* the table is written (ok), or the file cannot be opened for writing.
\* round_to_quarter, line 295, is called outside every try: when it raises,
\* main ends with the exception and nothing is written
Finish(ok) ==
    /\ pc = "gather"
    /\ \A k \in 1..Len(queue) : task[k] = "done"
    /\ LET rows == OutputRows(all_games, queue)
       IN  IF \E n \in Range(queue) : rows[n]["Time to Beat"] = OverflowError
           THEN /\ pc' = "crashed"
                /\ UNCHANGED <<all_games, csvFile>>
           ELSE /\ all_games' = rows
                /\ IF ok
                   THEN /\ csvFile' = [exists |-> TRUE, rows |-> rows]
                        /\ pc' = "success"
                   ELSE /\ pc' = "save_error"
                        /\ UNCHANGED csvFile
    /\ last' = Event("finish", 0, <<>>)
    /\ UNCHANGED <<cacheFile, runs, csv_rows, queue, game_cache, semaphore,
                   remaining_games, batch_i, task, requested, searched,
                   flushes>>

Terminal == pc \in {"success", "noop", "fatal", "save_error"}

\* a new process is started on the files the last one left
StartAgain ==
    /\ runs < MaxRuns
    /\ runs' = runs + 1
    /\ pc' = "start"
    /\ csv_rows' = <<>>
    /\ all_games' = <<>>
    /\ queue' = <<>>
    /\ game_cache' = EmptyCache
    /\ semaphore' = MAX_CONCURRENT_GAMES
    /\ remaining_games' = <<>>
    /\ batch_i' = 0
    /\ task' = <<>>
    /\ requested' = {}
    /\ searched' = {}
    /\ flushes' = 0
    /\ last' = NoEvent
    /\ UNCHANGED <<csvFile, cacheFile>>

\* the script is run again after a run that ended
Rerun == Terminal /\ StartAgain

Next ==
    \/ Load
    \/ StartGenres
    \/ \E r \in Responses : BatchResponds(r)
    \/ BatchFails
    \/ \E k \in 1..Len(queue) : TaskEnter(k)
    \/ \E k \in 1..Len(queue) : \E r \in SearchResults : SearchReturns(k, r)
    \/ \E k \in 1..Len(queue) : SearchFails(k)
    \/ \E ok \in BOOLEAN : Finish(ok)

\* one run of the script
Spec == Init /\ [][Next]_vars

\* the most candidates of one search result
MaxCandidates == 3

\* the similarities of the candidates, in hundredths
Sims == {40, 84, 85, 90, 100}

\* every list of at most MaxCandidates candidates, the i-th with game_id i
CandidateLists ==
    UNION { { [i \in 1..n |->
                 Cand(PyInt(i), sims[i], PyInt(1990 + i), PyFloat(110 * i),
                      PyInt(10 * i))] : sims \in [1..n -> Sims] } :
            n \in 0..MaxCandidates }

\* the choice of the best candidate: one record is looked up and
\* async_search returns any of the candidate lists
InitSelect ==
    /\ csvFile = [exists |-> TRUE, rows |-> <<RowDoom>>]
    /\ cacheFile = EmptyCache
    /\ runs = 1
    /\ Fresh

NextSelect ==
    \/ Load
    \/ StartGenres
    \/ BatchFails
    \/ \E k \in 1..Len(queue) : TaskEnter(k)
    \/ \E k \in 1..Len(queue) : \E r \in CandidateLists : SearchReturns(k, r)

SpecSelect == InitSelect /\ [][NextSelect]_vars

\* the documents the step the run waits for may flush: the cache merged
\* with a response of the batch awaited, or with the accepted candidate of
\* a search in flight
FlushDocs ==
    IF pc = "classify"
    THEN {MergeGenres(game_cache, r, 1) : r \in Responses}
    ELSE IF pc = "gather"
    THEN {CacheMerge(game_cache, CacheKey(all_games[queue[k]]["Game"]),
                     HltbFields(BestOf(r))) :
             k \in {j \in 1..Len(queue) : task[j] = "searching"},
             r \in {s \in SearchResults : s # <<>> /\ Accepts(BestOf(s))}}
    ELSE {}

\* the process is stopped while it waits for a service: nothing is written
Interrupt ==
    /\ pc \in {"classify", "gather"}
    /\ pc' = "interrupted"
    /\ last' = Event("interrupt", 0, <<>>)
    /\ UNCHANGED <<csvFile, cacheFile, runs, csv_rows, all_games, queue,
                   game_cache, semaphore, remaining_games, batch_i, task,
                   requested, searched, flushes>>

\* the process is stopped inside _save_cache, lines 77-79: the file holds
\* a prefix of the document being written, or all of it
InterruptInFlush ==
    /\ \E doc \in FlushDocs : cacheFile' \in {Truncated, doc}
    /\ pc' = "interrupted"
    /\ last' = Event("interrupt_in_flush", 0, <<>>)
    /\ UNCHANGED <<csvFile, runs, csv_rows, all_games, queue, game_cache,
                   semaphore, remaining_games, batch_i, task, requested,
                   searched, flushes>>

\* the script is run again after a run that was stopped
Restart == pc = "interrupted" /\ StartAgain

\* runs that may be stopped from outside, each followed by another run
InitInterrupt ==
    /\ csvFile = [exists |-> TRUE, rows |-> <<RowDoom, RowQuake>>]
    /\ cacheFile \in CacheDocs
    /\ runs = 1
    /\ Fresh

NextInterrupt ==
    \/ Next
    \/ Rerun
    \/ Interrupt
    \/ InterruptInFlush
    \/ Restart

SpecInterrupt == InitInterrupt /\ [][NextInterrupt]_vars

\* one run over tables that hold a record with a duration that is not
\* finite
InfTables ==
    { <<RowInf>>, <<RowInf, RowDoom>>, <<RowDoom, RowInf>>,
      <<RowDoom, RowDoomAlias, RowQuake, RowPico>> }

InitInf ==
    /\ csvFile \in [exists : {TRUE}, rows : InfTables]
                   \cup {[exists |-> FALSE, rows |-> <<>>]}
    /\ cacheFile \in CacheDocs
    /\ runs = 1
    /\ Fresh

SpecInf == InitInf /\ [][Next]_vars

\* deduplicate_games on its own: main reads a table and deduplicates it
InitDedup ==
    /\ csvFile \in [exists : {TRUE}, rows : DedupTables]
    /\ cacheFile = EmptyCache
    /\ runs = 1
    /\ Fresh

SpecDedup == InitDedup /\ [][Load]_vars

\* the script run MaxRuns times, one run after the other
NextTwice == Next \/ Rerun

\* the tables of the repeated runs: the filled ones, and tables with empty
\* fields, which the runs fill
TwiceTables ==
    FilledTables \cup
    { <<RowFull>>, <<RowDoom, RowPico>>,
      <<RowFull, RowPartial, RowDoom, RowUnknown>> }

InitTwice ==
    /\ csvFile \in [exists : {TRUE}, rows : TwiceTables]
                   \cup {[exists |-> FALSE, rows |-> <<>>]}
    /\ cacheFile \in CacheDocs
    /\ runs = 1
    /\ Fresh

SpecTwice == InitTwice /\ [][NextTwice]_vars

(* ------------------------------ claims -------------------------------- *)

\* the tasks inside  async with self.semaphore
InGate == {k \in 1..Len(task) : task[k] = "searching"}

\* C1: at every moment the number of lookup tasks inside the gated section
\* of process_hltb_only is at most MAX_CONCURRENT_GAMES, and the semaphore
\* counts the free places.
C1_GateBound ==
    /\ Cardinality(InGate) <= MAX_CONCURRENT_GAMES
    /\ semaphore = MAX_CONCURRENT_GAMES - Cardinality(InGate)

\* the gate is full while a later task still waits for it
C1_GateFull ==
    /\ Cardinality(InGate) = MAX_CONCURRENT_GAMES
    /\ \E k \in 1..Len(task) : task[k] = "pending"

\* the composite identity of a row: its title as written, and its platform
\* up to case, surrounding blanks and the spellings of a missing value
SameRecord(a, b) ==
    /\ a["Game"] = b["Game"]
    /\ a["Status"] = b["Status"]
    /\ Lower(normalize_field(PyS(a["Platform"]))) =
           Lower(normalize_field(PyS(b["Platform"])))

\* C2: when a run writes its output, the rows written are the whole
\* deduplicated table, queued or not, in the order deduplication left, and
\* the rows outside the queue are written as they were read.
C2_OutputIsWholeTable ==
    pc = "success" =>
        LET dedup == deduplicate_games(csv_rows)
        IN  /\ Len(csvFile.rows) = Len(dedup)
            /\ \A n \in 1..Len(dedup) :
                  /\ SameRecord(csvFile.rows[n], dedup[n])
                  /\ n \notin Range(queue) => csvFile.rows[n] = dedup[n]

\* a run wrote a table with a row outside the queue and a duplicate removed,
\* after a lookup filled a queued row
C2_WroteMixedTable ==
    /\ pc = "success"
    /\ Len(queue) < Len(all_games)
    /\ Len(all_games) < Len(csv_rows)
    /\ flushes > 0

\* lower(trim(s))
TrimLower(s) == Lower(Strip(s))

\* the Composite Identity Key as the specification words it
TrimmedKey(game) == <<TrimLower(game["Game"]), TrimLower(game["Platform"])>>

\* the spellings of a missing value, which deduplicate_games takes for one
Folded(s) == IF s \in NullWords THEN <<"u","n","k","n","o","w","n">> ELSE s

\* the key with the spellings of a missing value folded into one
FoldedKey(game) ==
    <<Folded(TrimLower(game["Game"])), Folded(TrimLower(game["Platform"]))>>

\* the rows of a table that are the first of their key, in table order
FirstOfKey(rows, Key(_)) ==
    LET firsts == {i \in 1..Len(rows) :
                      \A j \in 1..(i - 1) : Key(rows[j]) # Key(rows[i])}
        idx == AscSeq(firsts)
    IN  [m \in 1..Len(idx) |-> rows[idx[m]]]

Loaded == pc \in {"noop", "genres"}

\* C3 (amended): deduplicate_games returns the input rows that are the
\* first of their key, whole and in input order, where the key is
\* (lower(trim(Name)), lower(trim(Platform))) with the spellings of a
\* missing value ("", none, nan, null, unknown) taken for one another; the
\* result is never longer than the input and no two of its rows share the
\* key, folded or not.
C3_DedupKeepsFirstOfFoldedKey ==
    Loaded =>
        /\ all_games = FirstOfKey(csv_rows, FoldedKey)
        /\ Len(all_games) <= Len(csv_rows)
        /\ \A a, b \in 1..Len(all_games) :
              a # b => TrimmedKey(all_games[a]) # TrimmedKey(all_games[b])

\* C3 as claimed: the rows kept are the first rows of each key
\* (lower(trim(Name)), lower(trim(Platform))).
C3_DedupKeepsFirstOfTrimmedKey ==
    Loaded => all_games = FirstOfKey(csv_rows, TrimmedKey)

\* a later row of a key, spelled and filled differently, was dropped and
\* the first row of the key was kept
C3_DroppedLaterDuplicate ==
    /\ Loaded
    /\ \E i, j \in 1..Len(csv_rows) :
          /\ i < j
          /\ TrimmedKey(csv_rows[i]) = TrimmedKey(csv_rows[j])
          /\ csv_rows[i]["Game"] # csv_rows[j]["Game"]
          /\ csv_rows[i]["Status"] # csv_rows[j]["Status"]
          /\ csv_rows[j] \notin Range(all_games)
          /\ csv_rows[i] \in Range(all_games)

\* the five target fields
TargetFields == {"Year", "Genre", "Game Id", "Time to Beat", "Score"}

\* no target field of the row is empty or blank
Filled(row) == \A f \in TargetFields : Strip(row[f]) # <<>>

\* record n of all_games as the run read it
AtStart(n) == deduplicate_games(csv_rows)[n]

\* C4: no classification request lists, and no duration search is issued
\* for, a record whose five target fields were all filled when the run
\* started, whatever else the queue holds.
C4_NoCallForFilledRecord ==
    \A n \in requested \cup searched : ~Filled(AtStart(n))

\* a run has called both services for other records of a table that holds
\* a filled record
C4_CallsBesideFilledRecord ==
    /\ requested # {}
    /\ searched # {}
    /\ \E n \in 1..Len(all_games) : Filled(AtStart(n))

\* C5: a run on a table without an empty target field calls neither
\* service, writes nothing and ends as NoOp, whatever the cache holds; so
\* does the run after it, which reads the same table.
C5_FilledTableIsNoOp ==
    (pc # "start" /\ csvFile.exists /\ \A i \in 1..Len(csv_rows) : Filled(csv_rows[i]))
        => /\ pc = "noop"
           /\ requested = {}
           /\ searched = {}
           /\ flushes = 0
           /\ csvFile.rows = csv_rows

\* the second run on a filled table, whose titles the cache holds in full,
\* has ended
C5_SecondRunOnFilledTable ==
    /\ runs = 2
    /\ pc = "noop"
    /\ csv_rows # <<>>
    /\ \A i \in 1..Len(csv_rows) :
          /\ Filled(csv_rows[i])
          /\ \A f \in TargetFields :
                CacheHas(cacheFile, TrimLower(csv_rows[i]["Game"]), f)

\* the four fields process_hltb_only fills
HltbTargets == {"Year", "Game Id", "Time to Beat", "Score"}

\* the record is of a platform HowLongToBeat lists and lacks one of the
\* four fields
NeedsLookup(game) ==
    /\ ~Contains(<<"p","i","c","o"," ","8">>, TrimLower(game["Platform"]))
    /\ \E f \in HltbTargets : Strip(game[f]) = <<>>

\* the cache holds a non-empty field f under the key
Holds(cache, key, f) ==
    key \in DOMAIN cache /\ f \in DOMAIN cache[key] /\ cache[key][f] # <<>>

\* C6: when the lookup task of a queued record that needs a lookup finds,
\* under lower(trim(Name)), a cache entry with a Game Id and a Year, the
\* record's Year, Game Id, Time to Beat and Score are set from that entry
\* ("Unknown" for a field the entry lacks), no search is issued for the
\* record, and the cache is neither changed nor flushed.
C6_CacheHitRestores ==
    [][\A k \in 1..Len(queue) :
          LET n == queue[k]
              key == TrimLower(all_games[n]["Game"])
          IN  ( /\ pc = "gather"
                /\ task[k] = "pending"
                /\ task'[k] # "pending"
                /\ NeedsLookup(all_games[n])
                /\ Holds(game_cache, key, "Game Id")
                /\ Holds(game_cache, key, "Year") )
              => /\ task'[k] = "done"
                 /\ \A f \in HltbTargets :
                       all_games'[n][f] =
                           IF f \in DOMAIN game_cache[key]
                           THEN game_cache[key][f] ELSE UNKNOWN
                 /\ searched' = searched
                 /\ game_cache' = game_cache
                 /\ cacheFile' = cacheFile
                 /\ flushes' = flushes]_vars

\* a record that had no Year has been restored from an entry that holds
\* the Game Id "123" and the Year "1991" and no Score
C6_RestoredFromCache ==
    /\ last.op = "cache_hit"
    /\ LET n == queue[last.k]
       IN  /\ AtStart(n)["Year"] = <<>>
           /\ all_games[n]["Year"] = S_1991
           /\ all_games[n]["Game Id"] = S_123
           /\ all_games[n]["Score"] = UNKNOWN
           /\ n \notin searched

\* the greatest similarity of a non-empty candidate list
TopSimilarity(r) ==
    CHOOSE s \in {r[i].similarity : i \in 1..Len(r)} :
        \A i \in 1..Len(r) : r[i].similarity <= s

\* a step in which async_search returns a list to task k
ListReturned(k) ==
    /\ pc = "gather"
    /\ task[k] = "searching"
    /\ task'[k] = "done"
    /\ last'.op # "search_error"

\* the step that ends the lookups turns every empty target field of a
\* queued record into "Unknown"
EmptyEndsUnknown ==
    (pc = "gather" /\ pc' \in {"success", "save_error"})
        => \A n \in Range(queue) : \A f \in TargetFields :
              Strip(all_games[n][f]) = <<>> => all_games'[n][f] = UNKNOWN

\* C7: a lookup whose search returns candidates is accepted (the record
\* and the cache take the fields of a candidate of greatest similarity and
\* the cache is flushed) exactly when that similarity is at least the
\* threshold; otherwise, and when no candidate is returned, the records and
\* the cache are left as they were and nothing is flushed, and a field
\* still empty at the end of the run is written as "Unknown".
C7_AcceptedIffAtLeastThreshold ==
    [][ /\ \A k \in 1..Len(queue) :
              ListReturned(k) =>
                  LET r == last'.arg
                      n == queue[k]
                      key == TrimLower(all_games[n]["Game"])
                  IN  IF r # <<>> /\ TopSimilarity(r) >= SIMILARITY_THRESHOLD
                      THEN /\ flushes' = flushes + 1
                           /\ \E i \in 1..Len(r) :
                                 /\ r[i].similarity = TopSimilarity(r)
                                 /\ all_games'[n]["Game Id"] =
                                        IntToStr(r[i].game_id.v)
                                 /\ game_cache'[key]["Game Id"] =
                                        IntToStr(r[i].game_id.v)
                      ELSE /\ all_games' = all_games
                           /\ game_cache' = game_cache
                           /\ cacheFile' = cacheFile
                           /\ flushes' = flushes
        /\ EmptyEndsUnknown ]_vars

\* a candidate a hundredth below the threshold has just been rejected, in
\* a run that accepted a candidate exactly at the threshold
C7_RejectedBelowAcceptedAt ==
    /\ last.op = "rejected"
    /\ last.arg = <<C84>>
    /\ all_games[queue[last.k]]["Game Id"] = <<>>
    /\ \E n \in Range(queue) : all_games[n]["Game Id"] = <<"7">>

\* the first position of a list that holds its greatest similarity
FirstTop(r) ==
    CHOOSE i \in 1..Len(r) :
        /\ r[i].similarity = TopSimilarity(r)
        /\ \A j \in 1..(i - 1) : r[j].similarity < TopSimilarity(r)

\* C8: of every non-empty candidate list the candidate selected is the
\* first one, in the order of the list, with the greatest similarity; it is
\* the one whose fields an accepted lookup writes to the record and the
\* cache.
C8_SelectsFirstOfGreatest ==
    (last.op \in {"accepted", "rejected"}) =>
        LET r == last.arg
            n == queue[last.k]
            first == r[FirstTop(r)]
        IN  /\ BestOf(r) = first
            /\ last.op = "accepted" =>
                  /\ all_games[n]["Game Id"] = IntToStr(first.game_id.v)
                  /\ game_cache[TrimLower(all_games[n]["Game"])]["Game Id"] =
                         IntToStr(first.game_id.v)

\* a list whose greatest similarity is met by its second and third
\* candidates has been accepted
C8_AcceptedTie ==
    /\ last.op = "accepted"
    /\ Len(last.arg) = 3
    /\ last.arg[1].similarity < last.arg[2].similarity
    /\ last.arg[2].similarity = last.arg[3].similarity

\* the records of the batch whose response a classify step awaits
AwaitedBatch ==
    {remaining_games[m] :
        m \in (batch_i + 1)..Min(batch_i + GENRE_BATCH_SIZE,
                                 Len(remaining_games))}

\* a step in which the response of the awaited batch parses
BatchParsed == pc = "classify" /\ last'.op = "batch_ok"

\* a step in which the request of the awaited batch fails
BatchFailed == pc = "classify" /\ last'.op = "batch_error"

\* a step of the classification phase changes no record outside the
\* awaited batch, and a step of the lookup phase changes no Genre
GenreFrame ==
    /\ pc = "classify" =>
          \A n \in 1..Len(all_games) :
              n \notin AwaitedBatch => all_games'[n] = all_games[n]
    /\ (pc = "gather" /\ pc' = "gather") =>
          \A n \in 1..Len(all_games) :
              all_games'[n]["Genre"] = all_games[n]["Genre"]

\* the positions of a response that give an allowed label to a title of
\* the key
AllowedFor(r, key) ==
    {j \in 1..Len(r) : TrimLower(r[j][1]) = key /\ r[j][2] \in GENRES_ALLOWED}

Greatest(S) == CHOOSE x \in S : \A y \in S : y <= x

\* C9: when the response of a batch parses, each record of the batch takes
\* the label of the last entry of the response whose title has the
\* record's key lower(trim(Name)) and whose label is allowed; a record
\* without such an entry takes the genre the cache holds under its key and
\* otherwise keeps an empty Genre, which no later step fills and which the
\* run ends as "Unknown"; the run goes on to the next batch or to the
\* lookups.
C9_LastAllowedLabelOfKey ==
    [][ /\ BatchParsed =>
              /\ \A n \in AwaitedBatch :
                    LET r == last'.arg
                        key == TrimLower(all_games[n]["Game"])
                        hits == AllowedFor(r, key)
                    IN  all_games'[n] =
                            [all_games[n] EXCEPT !["Genre"] =
                                IF hits # {} THEN r[Greatest(hits)][2]
                                ELSE IF Holds(game_cache, key, "Genre")
                                     THEN game_cache[key]["Genre"]
                                     ELSE @]
              /\ pc' \in {"classify", "gather"}
        /\ GenreFrame
        /\ EmptyEndsUnknown ]_vars

\* C9 with the response read title by title: a record whose own title is
\* given an allowed label takes that label, and a record whose own title is
\* given a label that is not allowed, or no label, keeps its empty Genre
\* unless the cache held a genre for it.
C9_LabelOfOwnTitle ==
    [][ BatchParsed =>
           \A n \in AwaitedBatch :
               LET r == last'.arg
                   title == all_games[n]["Game"]
                   mapped == {j \in 1..Len(r) : r[j][1] = title}
               IN  /\ \A j \in mapped :
                         r[j][2] \in GENRES_ALLOWED
                             => all_games'[n]["Genre"] = r[j][2]
                   /\ ( /\ \A j \in mapped : r[j][2] \notin GENRES_ALLOWED
                        /\ ~Holds(game_cache, TrimLower(title), "Genre") )
                          => all_games'[n]["Genre"] = all_games[n]["Genre"]
      ]_vars

\* the response of the first batch has given one of its two records an
\* allowed label and the other none: the one is populated, the other empty
C9_PartialResponse ==
    /\ last.op = "batch_ok"
    /\ last.k = 0
    /\ Len(last.arg) = 1
    /\ last.arg[1][2] \in GENRES_ALLOWED
    /\ \E n1, n2 \in Range(Batch(remaining_games, 0)) :
          /\ all_games[n1]["Game"] = last.arg[1][1]
          /\ all_games[n1]["Genre"] = last.arg[1][2]
          /\ all_games[n2]["Genre"] = <<>>

\* C10: when the request of a batch fails, no record and no cache entry is
\* changed and nothing is flushed, the loop moves past the batch without
\* requesting it again, requests the next batch if one remains and
\* otherwise hands every queued record to the lookups; the records of the
\* failed batch keep the empty Genre, which only the response of their own
\* batch could fill and which the run ends as "Unknown".
C10_FailedBatchIsSkipped ==
    [][ /\ BatchFailed =>
              /\ all_games' = all_games
              /\ game_cache' = game_cache
              /\ cacheFile' = cacheFile
              /\ flushes' = flushes
              /\ batch_i' = batch_i + GENRE_BATCH_SIZE
              /\ IF batch_i + GENRE_BATCH_SIZE < Len(remaining_games)
                 THEN /\ pc' = "classify"
                      /\ AwaitedBatch' # {}
                      /\ AwaitedBatch' \cap AwaitedBatch = {}
                      /\ requested' = requested \cup AwaitedBatch'
                 ELSE /\ pc' = "gather"
                      /\ requested' = requested
                      /\ task' = [k \in 1..Len(queue) |-> "pending"]
        /\ GenreFrame
        /\ EmptyEndsUnknown ]_vars

\* the first batch has failed and the second has been requested
C10_NextBatchRequestedAfterFailure ==
    /\ last.op = "batch_error"
    /\ last.k = 0
    /\ pc = "classify"
    /\ batch_i = GENRE_BATCH_SIZE
    /\ \A n \in Range(Batch(remaining_games, 0)) : all_games[n]["Genre"] = <<>>
    /\ Range(Batch(remaining_games, batch_i)) \subseteq requested

\* a step in which the search of task k raises
SearchRaised(k) ==
    /\ pc = "gather"
    /\ task[k] = "searching"
    /\ last'.op = "search_error"
    /\ last'.k = k

\* C11: when the search of a task raises, the run stays in the lookup
\* phase with that task done and its place in the gate free again; no
\* record, no cache entry and no file is changed, and every other task is
\* where it was, so the state is the one an empty search result leaves.
C11_SearchErrorStaysInTask ==
    [][\A k \in 1..Len(queue) :
          SearchRaised(k) =>
              /\ pc' = "gather"
              /\ task' = [task EXCEPT ![k] = "done"]
              /\ semaphore' = semaphore + 1
              /\ all_games' = all_games
              /\ game_cache' = game_cache
              /\ cacheFile' = cacheFile
              /\ csvFile' = csvFile
              /\ <<queue, flushes, searched, requested>>' =
                     <<queue, flushes, searched, requested>>]_vars

\* the search of one task has raised while a sibling is inside the gate
\* and another still waits for it
C11_FailedBesideSiblings ==
    /\ last.op = "search_error"
    /\ task[last.k] = "done"
    /\ \E i, j \in 1..Len(task) : task[i] = "searching" /\ task[j] = "pending"
    /\ semaphore > 0

\* the fields the post-process of the queue normalises
NormalizedFields ==
    {"Platform", "Year", "Genre", "Game Id", "Time to Beat", "Score"}

\* "Unknown", or a non-empty value without surrounding blanks that is not a
\* spelling of a missing value
Normalized(v) ==
    \/ v = UNKNOWN
    \/ v # <<>> /\ Strip(v) = v /\ Lower(v) \notin NullWords

\* "Unknown", or a number of hours that is a multiple of 0.25
OnQuarter(v) ==
    \/ v = UNKNOWN
    \/ ParseFloat(v) # ValueError /\ ParseFloat(v) % 25 = 0

\* C12: in every table a run writes, every record, queued or not, holds
\* in Platform, Year, Genre, Game Id, Time to Beat and Score either
\* "Unknown" or a normalised non-empty value, and its Time to Beat is
\* "Unknown" or a multiple of 0.25.
C12_EveryWrittenRecordIsNormalized ==
    pc = "success" =>
        \A n \in 1..Len(csvFile.rows) :
            /\ \A f \in NormalizedFields : Normalized(csvFile.rows[n][f])
            /\ OnQuarter(csvFile.rows[n]["Time to Beat"])

\* C13: whenever the process is stopped, the cache file holds a whole
\* document, the one before the flush or the merged one, so the cache a
\* later run loads is the document of the file.
C13_CacheFileIsNeverCutShort ==
    /\ cacheFile # Truncated
    /\ pc \in {"noop", "genres"} => game_cache = cacheFile

\* the run waits for a classification response, or for a search or the gate
AtSuspension == pc \in {"classify", "gather"}

RequestedUpTo(i) ==
    {remaining_games[m] :
        m \in 1..Min(i + GENRE_BATCH_SIZE, Len(remaining_games))}

\* C15: while a classification request is outstanding it is the only one:
\* the batches before it have been requested and answered, no later batch
\* has been requested and no lookup task exists; a further batch is
\* requested only by the step that ends the outstanding one, after the
\* flush of its response or on its failure; and no search is issued before
\* the loop has passed the last batch.
C15_BatchesOneAfterTheOther ==
    [][ /\ pc = "classify" =>
              /\ batch_i < Len(remaining_games)
              /\ requested = RequestedUpTo(batch_i)
              /\ searched = {}
              /\ task = <<>>
        /\ searched # {} =>
              /\ pc # "classify"
              /\ batch_i >= Len(remaining_games)
              /\ requested = Range(remaining_games)
        /\ (pc = "classify" /\ requested' # requested) =>
              /\ last'.op \in {"batch_ok", "batch_error"}
              /\ last'.k = batch_i
              /\ batch_i' = batch_i + GENRE_BATCH_SIZE
              /\ requested' = RequestedUpTo(batch_i')
              /\ last'.op = "batch_ok" =>
                    flushes' = flushes + 1 /\ cacheFile' = game_cache' ]_vars

\* the second batch is outstanding after the response of the first was
\* flushed
C15_SecondBatchAfterFlush ==
    /\ pc = "classify"
    /\ batch_i = GENRE_BATCH_SIZE
    /\ last.op = "batch_ok"
    /\ flushes = 1
    /\ requested = Range(remaining_games)
    /\ Len(remaining_games) > GENRE_BATCH_SIZE

\* the value is missing in the sense of the specification: empty, blank or
\* a spelling of "Unknown"
Missing(v) == Strip(v) = <<>> \/ Lower(Strip(v)) \in NullWords

\* a step in which task k passes the gate
Entered(k) == pc = "gather" /\ task[k] = "pending" /\ task'[k] # "pending"

\* the step leaves task k done without a search and without a field written
SkippedBy(k) ==
    /\ task'[k] = "done"
    /\ all_games' = all_games
    /\ searched' = searched
    /\ game_cache' = game_cache

\* the step restores record n from its cache entry or issues its search
ResolvedBy(k) ==
    LET n == queue[k]
        key == TrimLower(all_games[n]["Game"])
    IN  \/ task'[k] = "searching" /\ n \in searched'
        \/ /\ Holds(game_cache, key, "Game Id")
           /\ Holds(game_cache, key, "Year")
           /\ task'[k] = "done"
           /\ all_games'[n]["Game Id"] = game_cache[key]["Game Id"]
           /\ all_games'[n]["Year"] = game_cache[key]["Year"]

\* C16 (amended): the lookup task of a queued record skips it, with no
\* search and no field written, exactly when its platform is excluded or
\* none of Year, Game Id, Time to Beat and Score is empty or blank, "Unknown"
\* counting as a value; every other queued record is restored from the
\* cache or searched for.
C16_SkippedIffExcludedOrNothingEmpty ==
    [][\A k \in 1..Len(queue) :
          Entered(k) =>
              IF NeedsLookup(all_games[queue[k]])
              THEN ResolvedBy(k) /\ ~SkippedBy(k)
              ELSE SkippedBy(k)]_vars

\* C16 as claimed: the record is skipped exactly when its platform is
\* excluded or none of the four fields is missing, "Unknown" counting as
\* missing.
C16_SkippedIffExcludedOrNothingUnknown ==
    [][\A k \in 1..Len(queue) :
          Entered(k) =>
              LET game == all_games[queue[k]]
              IN  IF \/ Contains(<<"p","i","c","o"," ","8">>,
                                 TrimLower(game["Platform"]))
                     \/ \A f \in HltbTargets : ~Missing(game[f])
                  THEN SkippedBy(k)
                  ELSE ResolvedBy(k) /\ ~SkippedBy(k)]_vars

\* a queued record of a listed platform whose four fields all read
\* "Unknown" has been skipped without a search
C16_SkippedWithUnknownFields ==
    /\ last.op = "skip_populated"
    /\ LET n == queue[last.k]
       IN  /\ \A f \in HltbTargets : all_games[n][f] = UNKNOWN
           /\ n \notin searched
           /\ all_games[n] = AtStart(n)

\* field f of the entry of the key is the same, present or absent, in both
\* caches
SameField(c1, c2, key, f) ==
    LET in1 == key \in DOMAIN c1 /\ f \in DOMAIN c1[key]
        in2 == key \in DOMAIN c2 /\ f \in DOMAIN c2[key]
    IN  /\ in1 <=> in2
        /\ in1 => c1[key][f] = c2[key][f]

CacheFields == HltbTargets \cup {"Genre"}

\* C17: within a run no cache entry and no field of an entry is ever
\* removed; an accepted lookup sets Score, Year, Game Id and Time to Beat of
\* the entry of its record's name to the values it gives the record, and
\* leaves the Genre of that entry and every other entry as they were; the
\* merge of a classification response changes Genre fields only; and no
\* other step changes the cache.
C17_MergeWritesOnlyItsFields ==
    [][AtSuspension =>
        LET keys == DOMAIN game_cache \cup DOMAIN game_cache'
        IN  /\ \A key \in DOMAIN game_cache :
                  /\ key \in DOMAIN game_cache'
                  /\ DOMAIN game_cache[key] \subseteq DOMAIN game_cache'[key]
            /\ \A key \in DOMAIN game_cache' :
                  DOMAIN game_cache'[key] \subseteq CacheFields
            /\ IF last'.op = "accepted"
               THEN LET n == queue[last'.k]
                        own == TrimLower(all_games[n]["Game"])
                    IN  /\ \A f \in HltbTargets :
                              /\ f \in DOMAIN game_cache'[own]
                              /\ game_cache'[own][f] = all_games'[n][f]
                        /\ SameField(game_cache, game_cache', own, "Genre")
                        /\ \A key \in keys \ {own} : \A f \in CacheFields :
                              SameField(game_cache, game_cache', key, f)
               ELSE IF last'.op = "batch_ok"
               THEN \A key \in keys : \A f \in HltbTargets :
                        SameField(game_cache, game_cache', key, f)
               ELSE game_cache' = game_cache]_vars

\* an accepted lookup has written its four fields into an entry that held a
\* Genre, beside the entry of another title
C17_AcceptedIntoEntryWithGenre ==
    /\ last.op = "accepted"
    /\ LET own == TrimLower(all_games[queue[last.k]]["Game"])
       IN  /\ DOMAIN game_cache[own] = CacheFields
           /\ game_cache[own]["Game Id"] = <<"7">>
           /\ game_cache[own]["Genre"] \in GENRES_ALLOWED
           /\ \E key \in DOMAIN game_cache :
                 key # own /\ "Year" \in DOMAIN game_cache[key]

\* C18: main is on its way, or it has ended in one of the states Success,
\* NoOp, FatalLoadError and SaveError: a run ends in no other state.
C18_RunEndsInTerminalState ==
    pc \in {"start", "genres", "classify", "gather"} \/ Terminal

\* C19 (as stated): while a run enriches, every target field of a queued
\* record that held a value when the run started, "Unknown" not counting as
\* one, still holds that value.
C19_PopulatedFieldsKeepTheirValue ==
    pc \in {"classify", "gather"} =>
        \A n \in Range(queue) : \A f \in TargetFields :
            ~Missing(AtStart(n)[f]) => all_games[n][f] = AtStart(n)[f]

\* C19 (amended): before the table is written, a step changes a Genre only
\* if it was empty or blank, and changes Year, Game Id, Time to Beat or
\* Score only of the record whose lookup task that step restores from the
\* cache or whose candidate it accepts, a record that lacked one of the
\* four; that step sets all four, those that held a value as well.
C19_WritesGenreIfEmptyAndAllFourOnLookup ==
    [][pc' \in {"classify", "gather"} =>
        \A n \in 1..Len(all_games) :
            /\ all_games'[n]["Genre"] # all_games[n]["Genre"] =>
                   Strip(all_games[n]["Genre"]) = <<>>
            /\ (\E f \in HltbTargets : all_games'[n][f] # all_games[n][f]) =>
                   /\ last'.op \in {"cache_hit", "accepted"}
                   /\ n = queue[last'.k]
                   /\ NeedsLookup(all_games[n])
            /\ (last'.op \in {"cache_hit", "accepted"} /\ n = queue[last'.k]) =>
                   LET key == TrimLower(all_games[n]["Game"])
                   IN  \A f \in HltbTargets :
                           all_games'[n][f] =
                               IF last'.op = "accepted"
                               THEN game_cache'[key][f]
                               ELSE IF f \in DOMAIN game_cache[key]
                                    THEN game_cache[key][f] ELSE UNKNOWN
       ]_vars

\* a record that came with the Year "1993" and no Game Id has been restored
\* from a cache entry of the Year "1991": its Year is now "1991"
C19_PopulatedYearOverwritten ==
    /\ last.op = "cache_hit"
    /\ LET n == queue[last.k]
       IN  /\ AtStart(n)["Year"] = S_1993
           /\ AtStart(n)["Game Id"] = <<>>
           /\ all_games[n]["Year"] = S_1991
           /\ all_games[n]["Genre"] = AtStart(n)["Genre"]
           /\ AtStart(n)["Genre"] # <<>>

\* C20: the merge of a parsed classification response changes the Genre of
\* a cache entry only under the key lower(trim(title)) of a record of the
\* batch that was awaited.
C20_MergeWritesKeysOfBatchOnly ==
    [][BatchParsed =>
        \A key \in DOMAIN game_cache \cup DOMAIN game_cache' :
            ~SameField(game_cache, game_cache', key, "Genre") =>
                \E n \in AwaitedBatch :
                    key = TrimLower(all_games[n]["Game"])]_vars

====
